---- MODULE Spec2Model ----
(***************************************************************************)
(* NumberToText (src/src/number_to_text.py): the conversion of an integer, *)
(* given as an int or as a string, into English words.                     *)
(*                                                                         *)
(* A Python str is a sequence of one-character strings.  A Python int is   *)
(* a record [neg, mag]: its sign and the decimal digits of its magnitude,  *)
(* most significant first, without leading zeros (zero is [FALSE, <<0>>]). *)
(* An operation that may raise returns [exc, msg, val]: exc is "" when it  *)
(* returns val, and the name of the exception, with its message in msg,    *)
(* otherwise.                                                              *)
(***************************************************************************)
EXTENDS Integers, Sequences, FiniteSets, TLC

VARIABLES number, pc, exc, numerical_value, numerical_split_value,
          is_negative_number, _cached_values, _text_value,
          temp_result, result, substring_idx,
          words_as_numbers_list, digit_groups_list, index, additions

vars ==
    <<number, pc, exc, numerical_value, numerical_split_value,
      is_negative_number, _cached_values, _text_value,
      temp_result, result, substring_idx,
      words_as_numbers_list, digit_groups_list, index, additions>>

(***************************************************************************)
(* data/constants.py                                                       *)
(***************************************************************************)
MINUS ==
    <<"m", "i", "n", "u", "s">>

HUNDRED ==
    <<"h", "u", "n", "d", "r", "e", "d">>

MAX_SUPPORTED_NUMBER_LENGTH == 27

MAX_SUPPORTED_NUMBER ==
    [neg |-> FALSE, mag |-> [i \in 1..27 |-> 9]]

ZERO ==
    (0 :> <<"z", "e", "r", "o">>)

SINGLES ==
       (0 :> <<>>)
    @@ (1 :> <<"o", "n", "e">>)
    @@ (2 :> <<"t", "w", "o">>)
    @@ (3 :> <<"t", "h", "r", "e", "e">>)
    @@ (4 :> <<"f", "o", "u", "r">>)
    @@ (5 :> <<"f", "i", "v", "e">>)
    @@ (6 :> <<"s", "i", "x">>)
    @@ (7 :> <<"s", "e", "v", "e", "n">>)
    @@ (8 :> <<"e", "i", "g", "h", "t">>)
    @@ (9 :> <<"n", "i", "n", "e">>)

UNIQUES ==
       (11 :> <<"e", "l", "e", "v", "e", "n">>)
    @@ (12 :> <<"t", "w", "e", "l", "v", "e">>)
    @@ (13 :> <<"t", "h", "i", "r", "t", "e", "e", "n">>)
    @@ (14 :> <<"f", "o", "u", "r", "t", "e", "e", "n">>)
    @@ (15 :> <<"f", "i", "f", "t", "e", "e", "n">>)
    @@ (16 :> <<"s", "i", "x", "t", "e", "e", "n">>)
    @@ (17 :> <<"s", "e", "v", "e", "n", "t", "e", "e", "n">>)
    @@ (18 :> <<"e", "i", "g", "h", "t", "e", "e", "n">>)
    @@ (19 :> <<"n", "i", "n", "e", "t", "e", "e", "n">>)

DOUBLES ==
       (10 :> <<"t", "e", "n">>)
    @@ (20 :> <<"t", "w", "e", "n", "t", "y">>)
    @@ (30 :> <<"t", "h", "i", "r", "t", "y">>)
    @@ (40 :> <<"f", "o", "r", "t", "y">>)
    @@ (50 :> <<"f", "i", "f", "t", "y">>)
    @@ (60 :> <<"s", "i", "x", "t", "y">>)
    @@ (70 :> <<"s", "e", "v", "e", "n", "t", "y">>)
    @@ (80 :> <<"e", "i", "g", "h", "t", "y">>)
    @@ (90 :> <<"n", "i", "n", "e", "t", "y">>)

LARGE ==
       (2 :> <<" ", "t", "h", "o", "u", "s", "a", "n", "d">>)
    @@ (3 :> <<" ", "m", "i", "l", "l", "i", "o", "n">>)
    @@ (4 :> <<" ", "b", "i", "l", "l", "i", "o", "n">>)
    @@ (5 :> <<" ", "t", "r", "i", "l", "l", "i", "o", "n">>)
    @@ (6 :> <<" ", "q", "u", "a", "d", "r", "i", "l", "l", "i", "o", "n">>)
    @@ (7 :> <<" ", "q", "u", "i", "n", "t", "i", "l", "l", "i", "o", "n">>)
    @@ (8 :> <<" ", "s", "e", "x", "t", "i", "l", "l", "i", "o", "n">>)
    @@ (9 :> <<" ", "s", "e", "p", "t", "i", "l", "l", "i", "o", "n">>)

\* The values of a dict, as dict.values() lists them for an `in` test.
Values(d) ==
    {d[k] : k \in DOMAIN d}

(***************************************************************************)
(* The str and int operations the program calls.                           *)
(***************************************************************************)
DigitChars ==
    {"0", "1", "2", "3", "4", "5", "6", "7", "8", "9"}

\* The characters str.strip() with no argument removes.
Whitespace ==
    {" ", "\t"}

\* int(c) of one decimal digit character.
DigitVal(c) ==
    CASE c = "0" -> 0 [] c = "1" -> 1 [] c = "2" -> 2 [] c = "3" -> 3
      [] c = "4" -> 4 [] c = "5" -> 5 [] c = "6" -> 6 [] c = "7" -> 7
      [] c = "8" -> 8 [] c = "9" -> 9

\* str(d) of one decimal digit.
DigitChar(d) ==
    CASE d = 0 -> "0" [] d = 1 -> "1" [] d = 2 -> "2" [] d = 3 -> "3"
      [] d = 4 -> "4" [] d = 5 -> "5" [] d = 6 -> "6" [] d = 7 -> "7"
      [] d = 8 -> "8" [] d = 9 -> "9"

\* A normal return of v, and a raise of exception e with message m.
Ret(v) ==
    [exc |-> "", msg |-> "", val |-> v]

Raise(e, m) ==
    [exc |-> e, msg |-> m, val |-> <<>>]

\* s.lstrip(chars): the longest prefix of characters in cs is removed.
RECURSIVE lstrip(_, _)
lstrip(s, cs) ==
    IF s # <<>> /\ Head(s) \in cs THEN lstrip(Tail(s), cs) ELSE s

\* s.rstrip(chars).
RECURSIVE rstrip(_, _)
rstrip(s, cs) ==
    IF s # <<>> /\ s[Len(s)] \in cs
    THEN rstrip(SubSeq(s, 1, Len(s) - 1), cs)
    ELSE s

\* s.strip(chars); s.strip() is strip(s, Whitespace).
strip(s, cs) ==
    rstrip(lstrip(s, cs), cs)

\* s.isdigit(): not empty and every character a digit.
isdigit(s) ==
    s # <<>> /\ \A i \in 1..Len(s) : s[i] \in DigitChars

\* s.endswith(suffix).
endswith(s, suffix) ==
    /\ Len(s) >= Len(suffix)
    /\ SubSeq(s, Len(s) - Len(suffix) + 1, Len(s)) = suffix

\* s.startswith(prefix).
startswith(s, prefix) ==
    /\ Len(s) >= Len(prefix)
    /\ SubSeq(s, 1, Len(prefix)) = prefix

\* s.removesuffix(suffix): one occurrence at the end is removed.
removesuffix(s, suffix) ==
    IF suffix # <<>> /\ endswith(s, suffix)
    THEN SubSeq(s, 1, Len(s) - Len(suffix))
    ELSE s

\* s.find(sub) + 1: the place of the first occurrence of sub in s, 0 for none.
find(s, sub) ==
    LET hits == {i \in 1..(Len(s) - Len(sub) + 1) : SubSeq(s, i, i + Len(sub) - 1) = sub}
    IN  IF hits = {} THEN 0 ELSE CHOOSE i \in hits : \A j \in hits : i <= j

\* s.replace(old, new) for a non-empty old: every occurrence, left to right,
\* without overlap.
RECURSIVE replace(_, _, _)
replace(s, old, new) ==
    LET i == find(s, old)
    IN  IF i = 0 THEN s
        ELSE SubSeq(s, 1, i - 1) \o new
               \o replace(SubSeq(s, i + Len(old), Len(s)), old, new)

\* sep.join(list).
RECURSIVE join(_, _)
join(sep, list) ==
    IF list = <<>> THEN <<>>
    ELSE IF Len(list) = 1 THEN list[1]
    ELSE list[1] \o sep \o join(sep, Tail(list))

\* s.split(" "): the pieces between single spaces, empty pieces kept.
RECURSIVE split_sep(_, _)
split_sep(s, cur) ==
    IF s = <<>> THEN <<cur>>
    ELSE IF Head(s) = " " THEN <<cur>> \o split_sep(Tail(s), <<>>)
    ELSE split_sep(Tail(s), Append(cur, Head(s)))

\* s.split(): the runs of non-whitespace characters, no empty piece.
RECURSIVE split_ws(_, _)
split_ws(s, cur) ==
    IF s = <<>> THEN (IF cur = <<>> THEN <<>> ELSE <<cur>>)
    ELSE IF Head(s) \in Whitespace
         THEN (IF cur = <<>> THEN <<>> ELSE <<cur>>) \o split_ws(Tail(s), <<>>)
         ELSE split_ws(Tail(s), Append(cur, Head(s)))

\* list[::-1].
reversed(list) ==
    [i \in 1..Len(list) |-> list[Len(list) + 1 - i]]

\* str(n) of an int: "-" for a negative one, then its digits.
str_of_int(n) ==
    (IF n.neg THEN <<"-">> ELSE <<>>) \o [i \in 1..Len(n.mag) |-> DigitChar(n.mag[i])]

\* The digits of a digit string, leading zeros dropped (zero keeps one).
Magnitude(ds) ==
    LET d == [i \in 1..Len(ds) |-> DigitVal(ds[i])]
        z == lstrip(d, {0})
    IN  IF z = <<>> THEN <<0>> ELSE z

\* int(s) of a str: surrounding whitespace is dropped, one sign is allowed, and
\* the rest must be digits; anything else raises ValueError.  -0 is 0.
int_of_str(s) ==
    LET t == strip(s, Whitespace)
        signed == t # <<>> /\ Head(t) \in {"-", "+"}
        ds == IF signed THEN Tail(t) ELSE t
    IN  IF ~isdigit(ds) THEN Raise("ValueError", "invalid literal for int()")
        ELSE LET m == Magnitude(ds)
             IN  Ret([neg |-> signed /\ Head(t) = "-" /\ m # <<0>>, mag |-> m])

\* a > b for two ints.
RECURSIVE MagGT(_, _)
MagGT(a, b) ==
    IF Len(a) # Len(b) THEN Len(a) > Len(b)
    ELSE IF a = <<>> THEN FALSE
    ELSE IF Head(a) # Head(b) THEN Head(a) > Head(b)
    ELSE MagGT(Tail(a), Tail(b))

IntGT(a, b) ==
    IF a.neg # b.neg THEN b.neg
    ELSE IF a.neg THEN MagGT(b.mag, a.mag)
    ELSE MagGT(a.mag, b.mag)

IntIsZero(a) ==
    a.mag = <<0>>

\* int(g) of a digit group of up to a few digits, as a number.
RECURSIVE IntOfDigits(_)
IntOfDigits(g) ==
    IF g = <<>> THEN 0
    ELSE 10 * IntOfDigits(SubSeq(g, 1, Len(g) - 1)) + DigitVal(g[Len(g)])

(***************************************************************************)
(* The inputs of NumberToText(number): an int, a str or a float.           *)
(***************************************************************************)
IntZero ==
    [neg |-> FALSE, mag |-> <<0>>]

IntInput(n) ==
    [kind |-> "int", i |-> n, s |-> <<>>]

StrInput(s) ==
    [kind |-> "str", i |-> IntZero, s |-> s]

\* A float; s is its repr, which the program never reads.
FloatInput(s) ==
    [kind |-> "float", i |-> IntZero, s |-> s]

\* str(number).
str(n) ==
    IF n.kind = "int" THEN str_of_int(n.i) ELSE n.s

(***************************************************************************)
(* data/error_messages.py                                                  *)
(***************************************************************************)
FLOATING_POINT_ERROR_MESSAGE ==
    "Floating point numbers are not supported"

NUMBER_IS_NOT_DIGITS_ONLY ==
    "is not a valid number. It should contain digits only."

NUMBER_TOO_LARGE ==
    "Number is too large. The maximum number length is 27 digits"

(***************************************************************************)
(* NumberToText                                                            *)
(***************************************************************************)
validate_number(n) ==
    IF n.kind = "float"
    THEN Raise("ValueError", FLOATING_POINT_ERROR_MESSAGE)
    ELSE IF n.kind = "str" /\ ~isdigit(lstrip(strip(n.s, Whitespace), {"-"}))
    THEN Raise("ValueError", NUMBER_IS_NOT_DIGITS_ONLY)
    ELSE IF n.kind = "str" /\ Len(n.s) > MAX_SUPPORTED_NUMBER_LENGTH
    THEN Raise("ValueError", NUMBER_TOO_LARGE)
    ELSE IF n.kind = "int" /\ IntGT(n.i, MAX_SUPPORTED_NUMBER)
    THEN Raise("ValueError", NUMBER_TOO_LARGE)
    ELSE Ret(strip(str(n), Whitespace))

\* The digits are taken from the right; every third one gets a space before it.
_format_number_string(number_string) ==
    LET n == Len(number_string)
        res == [digit \in 1..n |->
                   IF digit % 3 = 0
                   THEN <<" ", number_string[n - digit + 1]>>
                   ELSE <<number_string[n - digit + 1]>>]
    IN  join(<<>>, reversed(res))

_all_digits_are_zeros(three_digit_string) ==
    /\ Len(three_digit_string) = 3
    /\ \A i \in 1..3 : DigitVal(three_digit_string[i]) = 0

\* dc.SINGLES[int(numbers[-1])]
_add_singles(numbers) ==
    SINGLES[DigitVal(numbers[Len(numbers)])]

\* numbers[-2:]
LastTwo(numbers) ==
    SubSeq(numbers, IF Len(numbers) > 2 THEN Len(numbers) - 1 ELSE 1, Len(numbers))

\* Fault: _add_decimals without its UNIQUES lookup, so that 11 to 19 are put
\* together from a tens word and a ones word.
_add_decimals_without_uniques(numbers) ==
    LET v == IntOfDigits(LastTwo(numbers))
        tens == 10 * DigitVal(numbers[Len(numbers) - 1])
        res == IF v \in DOMAIN DOUBLES THEN <<DOUBLES[v]>>
               ELSE IF tens \in DOMAIN DOUBLES
                    THEN <<DOUBLES[tens], _add_singles(numbers)>>
                    ELSE <<_add_singles(numbers)>>
    IN  join(<<" ">>, res)

\* The chain of try/except KeyError: UNIQUES, then DOUBLES, then the tens word
\* and the ones word, then the ones word alone.
_add_decimals(numbers) ==
    LET v == IntOfDigits(LastTwo(numbers))
        tens == 10 * DigitVal(numbers[Len(numbers) - 1])
        res == IF v \in DOMAIN UNIQUES THEN <<UNIQUES[v]>>
               ELSE IF v \in DOMAIN DOUBLES THEN <<DOUBLES[v]>>
               ELSE IF tens \in DOMAIN DOUBLES
                    THEN <<DOUBLES[tens], _add_singles(numbers)>>
                    ELSE <<_add_singles(numbers)>>
    IN  join(<<" ">>, res)

_add_hundreds(numbers0) ==
    LET numbers == lstrip(numbers0, {"0"})
        res == IF Len(numbers) = 3
               THEN <<SINGLES[DigitVal(numbers[1])] \o <<" ">> \o HUNDRED,
                      _add_decimals(numbers)>>
               ELSE IF Len(numbers) = 2 THEN <<_add_decimals(numbers)>>
               ELSE IF Len(numbers) = 1 THEN <<_add_singles(numbers)>>
               ELSE <<>>
    IN  IF res = <<>> THEN Raise("IndexError", "list index out of range")
        ELSE IF endswith(res[1], HUNDRED) /\ Len(res) > 1 /\ res[2] # <<>>
             THEN Ret(join(<<" ">>, <<res[1] \o <<" ", "a", "n", "d">>, res[2]>>))
             ELSE Ret(join(<<" ">>, res))

_format_digits(numbers) ==
    IF _all_digits_are_zeros(numbers) THEN Ret(<<>>)
    ELSE LET h == _add_hundreds(numbers)
         IN  IF h.exc # "" THEN h ELSE Ret(join(<<" ">>, <<h.val>>))

\* None, the value of a field or local not yet assigned.
None ==
    <<"None">>

NoExc ==
    [exc |-> "", msg |-> ""]

\* Fault: the loop body of _create_text_from_number storing in the cache the
\* phrase without its surrounding spaces, and not the phrase it returns.
_create_text_iter_stripped(cached, res, g) ==
    IF g \in DOMAIN cached
    THEN [exc |-> "", msg |-> "", cached |-> cached, result |-> Append(res, cached[g])]
    ELSE LET text_from_digits == _format_digits(g)
         IN  IF text_from_digits.exc # ""
             THEN [exc |-> text_from_digits.exc, msg |-> text_from_digits.msg,
                   cached |-> cached, result |-> res]
             ELSE [exc |-> "", msg |-> "",
                   cached |-> cached @@ (g :> strip(text_from_digits.val, {" "})),
                   result |-> Append(res, text_from_digits.val)]

\* One iteration of the loop of _create_text_from_number on the group g: a cached
\* group is read from the cache, another is translated and stored.
_create_text_iter(cached, res, g) ==
    IF g \in DOMAIN cached
    THEN [exc |-> "", msg |-> "", cached |-> cached, result |-> Append(res, cached[g])]
    ELSE LET text_from_digits == _format_digits(g)
         IN  IF text_from_digits.exc # ""
             THEN [exc |-> text_from_digits.exc, msg |-> text_from_digits.msg,
                   cached |-> cached, result |-> res]
             ELSE [exc |-> "", msg |-> "",
                   cached |-> cached @@ (g :> text_from_digits.val),
                   result |-> Append(res, text_from_digits.val)]

\* The loop of _create_text_from_number from the group at substring_idx (0-based)
\* on, stopped by the first exception.
RECURSIVE _create_text_loop(_, _, _, _)
_create_text_loop(cached, res, groups, idx) ==
    IF idx >= Len(groups)
    THEN [exc |-> "", msg |-> "", cached |-> cached, result |-> res]
    ELSE LET it == _create_text_iter(cached, res, groups[idx + 1])
         IN  IF it.exc # "" THEN it
             ELSE _create_text_loop(it.cached, it.result, groups, idx + 1)

_create_text_from_number(cached, number_text) ==
    _create_text_loop(cached, <<>>, split_sep(number_text, <<>>), 0)

\* Fault: the suffix choice without its test of grade 2, so that the thousands
\* are pluralized like the other grades.
suffix_to_add_plural_thousand(grade, plural) ==
    IF ~plural THEN LARGE[grade] ELSE LARGE[grade] \o <<"s">>

\* The suffix of a group that gets one: singular for a group of value 0 or 1 and
\* for the thousands, plural otherwise.
suffix_to_add(grade, plural) ==
    IF ~plural \/ grade = 2 THEN LARGE[grade] ELSE LARGE[grade] \o <<"s">>

\* Fault: the loop body of _final_format with the grade clamped to the highest
\* key of LARGE, so that a number of more groups reads one grade twice.
_final_format_iter_clamped(words, groups, adds, idx) ==
    LET grade == IF Len(words) - idx > 9 THEN 9 ELSE Len(words) - idx
    IN  IF idx + 1 > Len(groups)
        THEN [exc |-> "IndexError", msg |-> "list index out of range",
              words |-> words, additions |-> adds]
        ELSE LET plural == IntOfDigits(groups[idx + 1]) > 1
             IN  IF /\ grade > 1
                    /\ (LARGE[grade] \o <<"s">>) \notin adds
                    /\ LARGE[grade] \notin adds
                    /\ ~_all_digits_are_zeros(groups[idx + 1])
                 THEN [exc |-> "", msg |-> "",
                       words |-> [words EXCEPT ![idx + 1] =
                                     strip(@, {" "}) \o suffix_to_add(grade, plural)],
                       additions |-> adds \cup {suffix_to_add(grade, plural)}]
                 ELSE [exc |-> "", msg |-> "", words |-> words, additions |-> adds]

\* One iteration of the first loop of _final_format, at the 0-based index idx.
\* dc.LARGE[grade] is read first, and raises KeyError for a grade it does not hold.
_final_format_iter(words, groups, adds, idx) ==
    LET grade == Len(words) - idx
    IN  IF idx + 1 > Len(groups)
        THEN [exc |-> "IndexError", msg |-> "list index out of range",
              words |-> words, additions |-> adds]
        ELSE LET plural == IntOfDigits(groups[idx + 1]) > 1
             IN  IF grade > 1 /\ grade \notin DOMAIN LARGE
                 THEN [exc |-> "KeyError", msg |-> "grade",
                       words |-> words, additions |-> adds]
                 ELSE IF /\ grade > 1
                         /\ (LARGE[grade] \o <<"s">>) \notin adds
                         /\ LARGE[grade] \notin adds
                         /\ ~_all_digits_are_zeros(groups[idx + 1])
                 THEN [exc |-> "", msg |-> "",
                       words |-> [words EXCEPT ![idx + 1] =
                                     strip(@, {" "}) \o suffix_to_add(grade, plural)],
                       additions |-> adds \cup {suffix_to_add(grade, plural)}]
                 ELSE [exc |-> "", msg |-> "", words |-> words, additions |-> adds]

RECURSIVE _final_format_loop(_, _, _, _)
_final_format_loop(words, groups, adds, idx) ==
    IF idx >= Len(words)
    THEN [exc |-> "", msg |-> "", words |-> words, additions |-> adds]
    ELSE LET it == _final_format_iter(words, groups, adds, idx)
         IN  IF it.exc # "" THEN it
             ELSE _final_format_loop(it.words, groups, it.additions, idx + 1)

\* Fault: the "and " prefix given to the bare ones words only, not to the teens.
gets_and_prefix_ones_only(phrase, words) ==
    /\ phrase \in Values(SINGLES)
    /\ phrase # <<>>
    /\ Len(words) > 1
    /\ words[1] # <<>>

\* Whether a phrase of the list gets "and " put before it: a bare ones word or
\* teen word, in a list of more than one phrase whose first phrase is not empty.
gets_and_prefix(phrase, words) ==
    /\ (phrase \in Values(SINGLES) \/ phrase \in Values(UNIQUES))
    /\ phrase # <<>>
    /\ Len(words) > 1
    /\ words[1] # <<>>

\* The list comprehension of _final_format: the phrases, prefixed where
\* gets_and_prefix says so, with the empty ones left out.
RECURSIVE and_prefixed(_, _)
and_prefixed(rest, words) ==
    IF rest = <<>> THEN <<>>
    ELSE LET x == Head(rest)
             y == IF gets_and_prefix(x, words)
                  THEN replace(x, x, <<"a", "n", "d", " ">> \o x)
                  ELSE x
         IN  (IF y # <<>> THEN <<y>> ELSE <<>>) \o and_prefixed(Tail(rest), words)

\* The rest of _final_format, after the suffixes: the prefixes, the join, the
\* ", and" replacement and the minus.
_final_format_join(words, negative) ==
    LET temp == and_prefixed(words, words)
        joined == IF Len(temp) >= 2
                  THEN join(<<",", " ">>,
                            [i \in 1..Len(temp) |-> removesuffix(temp[i], <<" ">>)])
                  ELSE strip(join(<<" ">>, temp), Whitespace)
        res == replace(joined, <<",", " ", "a", "n", "d">>, <<" ", "a", "n", "d">>)
    IN  IF negative THEN MINUS \o <<",", " ">> \o res ELSE res

_final_format(words, groups, negative) ==
    LET lp == _final_format_loop(words, groups, {}, 0)
    IN  IF lp.exc # "" THEN Raise(lp.exc, lp.msg)
        ELSE Ret(_final_format_join(lp.words, negative))

\* Fault: _read_number testing for zero by comparing the text with "0", not its
\* value with 0.
_read_number_head_literal_zero(value) ==
    LET i == int_of_str(value)
    IN  IF i.exc # ""
        THEN [exc |-> i.exc, msg |-> i.msg, done |-> FALSE, text |-> None,
              is_negative_number |-> FALSE, numerical_split_value |-> None]
        ELSE IF value = <<"0">>
        THEN [exc |-> "", msg |-> "", done |-> TRUE, text |-> ZERO[0],
              is_negative_number |-> FALSE, numerical_split_value |-> None]
        ELSE LET split == strip(_format_number_string(lstrip(value, {"-"})), {" "})
             IN  [exc |-> "", msg |-> "", done |-> FALSE, text |-> None,
                  is_negative_number |-> i.val.neg,
                  numerical_split_value |->
                      IF i.val.neg THEN <<"-">> \o split ELSE split]

\* _read_number up to its call of _create_text_from_number: the zero test, the
\* sign and numerical_split_value.  done says that it returned "zero".
_read_number_head(value) ==
    LET i == int_of_str(value)
    IN  IF i.exc # ""
        THEN [exc |-> i.exc, msg |-> i.msg, done |-> FALSE, text |-> None,
              is_negative_number |-> FALSE, numerical_split_value |-> None]
        ELSE IF IntIsZero(i.val)
        THEN [exc |-> "", msg |-> "", done |-> TRUE, text |-> ZERO[0],
              is_negative_number |-> FALSE, numerical_split_value |-> None]
        ELSE LET split == strip(_format_number_string(lstrip(value, {"-"})), {" "})
             IN  [exc |-> "", msg |-> "", done |-> FALSE, text |-> None,
                  is_negative_number |-> i.val.neg,
                  numerical_split_value |->
                      IF i.val.neg THEN <<"-">> \o split ELSE split]

_read_number(value) ==
    LET h == _read_number_head(value)
    IN  IF h.exc # "" THEN Raise(h.exc, h.msg)
        ELSE IF h.done THEN Ret(h.text)
        ELSE LET unsigned == lstrip(h.numerical_split_value, {"-"})
                 ct == _create_text_from_number(<<>>, unsigned)
             IN  IF ct.exc # "" THEN Raise(ct.exc, ct.msg)
                 ELSE _final_format(ct.result, split_ws(unsigned, <<>>),
                                    h.is_negative_number)

\* NumberToText(number): the text of the new object, or the exception raised.
NumberToText(n) ==
    LET v == validate_number(n)
    IN  IF v.exc # "" THEN v ELSE _read_number(v.val)

(***************************************************************************)
(* The inputs the model draws.                                             *)
(***************************************************************************)
\* The digits of one group.
GroupSize == 3

\* The most groups a drawn number has: one more than LARGE has suffixes for.
MaxGroups == 10

\* The most whitespace characters before, and after, a drawn string.
MaxPad == 1

\* The most "-" before a drawn string.
MaxMinus == 2

\* The most extra leading zeros of a drawn string.
MaxZeros == 5

RECURSIVE Repeat(_, _)
Repeat(s, k) ==
    IF k <= 0 THEN <<>> ELSE s \o Repeat(s, k - 1)

\* Every digit string of one group's length or less, leading zeros included.
GroupStrings ==
    UNION {[1..k -> DigitChars] : k \in 1..GroupSize}

TopGroups ==
    {<<"1">>, <<"2">>, <<"1", "2">>, <<"1", "0", "0">>, <<"1", "2", "3">>,
     <<"9", "9", "9">>}

MidGroups ==
    {<<"0", "0", "0">>, <<"0", "0", "1">>, <<"1", "0", "0">>,
     <<"1", "2", "3">>, <<"9", "9", "9">>}

LastGroups ==
    {<<"0", "0", "0">>, <<"0", "0", "1">>, <<"0", "1", "0">>, <<"0", "1", "1">>,
     <<"1", "0", "0">>, <<"1", "2", "3">>, <<"9", "9", "9">>}

\* The numbers of 2 to MaxGroups groups: a top group, one middle group repeated,
\* and a last group.
BigNumbers ==
    {t \o Repeat(m, k - 2) \o l :
        t \in TopGroups, m \in MidGroups, l \in LastGroups, k \in 2..MaxGroups}

IntInputs ==
    {IntInput([neg |-> sg /\ Magnitude(d) # <<0>>, mag |-> Magnitude(d)]) :
        d \in GroupStrings \cup BigNumbers, sg \in BOOLEAN}

Bodies ==
    {<<"0">>, <<"1">>, <<"5">>, <<"1", "2">>, <<"1", "0", "0">>, <<"1", "2", "3">>,
     <<"1", "0", "0", "0">>, <<"1", "0", "0", "1">>,
     <<"1", "0", "0", "0", "0", "0", "0">>,
     Repeat(<<"9">>, MAX_SUPPORTED_NUMBER_LENGTH - 1),
     <<"1">> \o Repeat(<<"0">>, MAX_SUPPORTED_NUMBER_LENGTH - 1),
     Repeat(<<"9">>, MAX_SUPPORTED_NUMBER_LENGTH),
     Repeat(<<"9">>, MAX_SUPPORTED_NUMBER_LENGTH + 1)}

\* Whitespace, minus signs and zeros put around a body.
Decorated ==
    {Repeat(<<" ">>, lead) \o Repeat(<<"-">>, minus) \o Repeat(<<"0">>, zeros)
        \o b \o Repeat(<<" ">>, trail) :
        lead \in 0..MaxPad, minus \in 0..MaxMinus, zeros \in 0..MaxZeros,
        b \in Bodies, trail \in 0..MaxPad}

\* Strings that are no number.
Malformed ==
    {<<>>, <<"-">>, <<" ">>, <<"3", ".", "1", "4">>, <<"5", "-">>, <<"-", " ", "5">>,
     <<"1", " ", "2">>, <<"+", "5">>, <<"a", "b", "c">>, <<"1", "e", "3">>}

StrInputs ==
    {StrInput(s) :
        s \in GroupStrings \cup Decorated \cup Malformed
              \cup {<<"\t", "5", "\t">>}
              \cup {str_of_int(n.i) : n \in IntInputs}}

FloatInputs ==
    {FloatInput(<<"3", ".", "1", "4">>)}

Inputs ==
    IntInputs \cup StrInputs \cup FloatInputs

(***************************************************************************)
(* The construction of one NumberToText object, step by step.              *)
(***************************************************************************)
Init ==
    /\ number \in Inputs
    /\ pc = "__init__"
    /\ exc = NoExc
    /\ numerical_value = None
    /\ numerical_split_value = None
    /\ is_negative_number = FALSE
    /\ _cached_values = <<>>
    /\ _text_value = None
    /\ temp_result = <<>>
    /\ result = <<>>
    /\ substring_idx = 0
    /\ words_as_numbers_list = <<>>
    /\ digit_groups_list = <<>>
    /\ index = 0
    /\ additions = {}

\* __init__ up to the call of _read_number: the validation and the fields.
Validate ==
    /\ pc = "__init__"
    /\ LET v == validate_number(number)
       IN  IF v.exc # ""
           THEN /\ pc' = "raised"
                /\ exc' = [exc |-> v.exc, msg |-> v.msg]
                /\ UNCHANGED numerical_value
           ELSE /\ pc' = "_read_number"
                /\ numerical_value' = v.val
                /\ UNCHANGED exc
    /\ UNCHANGED <<number, numerical_split_value, is_negative_number, _cached_values,
                   _text_value, temp_result, result, substring_idx,
                   words_as_numbers_list, digit_groups_list, index, additions>>

\* _read_number up to the first iteration of _create_text_from_number.
ReadNumber ==
    /\ pc = "_read_number"
    /\ LET h == _read_number_head(numerical_value)
       IN  IF h.exc # ""
           THEN /\ pc' = "raised"
                /\ exc' = [exc |-> h.exc, msg |-> h.msg]
                /\ UNCHANGED <<is_negative_number, numerical_split_value,
                               _text_value, temp_result>>
           ELSE IF h.done
           THEN /\ pc' = "done"
                /\ _text_value' = h.text
                /\ UNCHANGED <<exc, is_negative_number, numerical_split_value,
                               temp_result>>
           ELSE /\ pc' = "_create_text_from_number"
                /\ is_negative_number' = h.is_negative_number
                /\ numerical_split_value' = h.numerical_split_value
                /\ temp_result' =
                       split_sep(lstrip(h.numerical_split_value, {"-"}), <<>>)
                /\ UNCHANGED <<exc, _text_value>>
    /\ result' = <<>>
    /\ substring_idx' = 0
    /\ UNCHANGED <<number, numerical_value, _cached_values,
                   words_as_numbers_list, digit_groups_list, index, additions>>

\* One iteration of the loop of _create_text_from_number.
CreateTextStep ==
    /\ pc = "_create_text_from_number"
    /\ substring_idx < Len(temp_result)
    /\ LET it == _create_text_iter(_cached_values, result,
                                   temp_result[substring_idx + 1])
       IN  IF it.exc # ""
           THEN /\ pc' = "raised"
                /\ exc' = [exc |-> it.exc, msg |-> it.msg]
                /\ UNCHANGED <<_cached_values, result, substring_idx>>
           ELSE /\ _cached_values' = it.cached
                /\ result' = it.result
                /\ substring_idx' = substring_idx + 1
                /\ UNCHANGED <<pc, exc>>
    /\ UNCHANGED <<number, numerical_value, numerical_split_value,
                   is_negative_number, _text_value, temp_result,
                   words_as_numbers_list, digit_groups_list, index, additions>>

\* The return of _create_text_from_number and the entry of _final_format.
CreateTextReturn ==
    /\ pc = "_create_text_from_number"
    /\ substring_idx = Len(temp_result)
    /\ pc' = "_final_format"
    /\ words_as_numbers_list' = result
    /\ digit_groups_list' = split_ws(lstrip(numerical_split_value, {"-"}), <<>>)
    /\ index' = 0
    /\ additions' = {}
    /\ UNCHANGED <<number, exc, numerical_value, numerical_split_value,
                   is_negative_number, _cached_values, _text_value,
                   temp_result, result, substring_idx>>

\* One iteration of the suffix loop of _final_format.
FinalFormatStep ==
    /\ pc = "_final_format"
    /\ index < Len(words_as_numbers_list)
    /\ LET it == _final_format_iter(words_as_numbers_list, digit_groups_list,
                                    additions, index)
       IN  IF it.exc # ""
           THEN /\ pc' = "raised"
                /\ exc' = [exc |-> it.exc, msg |-> it.msg]
                /\ UNCHANGED <<words_as_numbers_list, additions, index>>
           ELSE /\ words_as_numbers_list' = it.words
                /\ additions' = it.additions
                /\ index' = index + 1
                /\ UNCHANGED <<pc, exc>>
    /\ UNCHANGED <<number, numerical_value, numerical_split_value,
                   is_negative_number, _cached_values, _text_value,
                   temp_result, result, substring_idx, digit_groups_list>>

\* The rest of _final_format, and the assignment of _text_value in __init__.
FinalFormatReturn ==
    /\ pc = "_final_format"
    /\ index = Len(words_as_numbers_list)
    /\ pc' = "done"
    /\ _text_value' = _final_format_join(words_as_numbers_list, is_negative_number)
    /\ UNCHANGED <<number, exc, numerical_value, numerical_split_value,
                   is_negative_number, _cached_values, temp_result, result,
                   substring_idx, words_as_numbers_list, digit_groups_list,
                   index, additions>>

Next ==
    \/ Validate
    \/ ReadNumber
    \/ CreateTextStep
    \/ CreateTextReturn
    \/ FinalFormatStep
    \/ FinalFormatReturn

Spec ==
    Init /\ [][Next]_vars

\* What the construction ended with, in the form NumberToText(number) has.
Outcome ==
    IF pc = "done" THEN Ret(_text_value) ELSE Raise(exc.exc, exc.msg)

Finished ==
    pc \in {"done", "raised"}

\* Validation returned: __init__ went on to _read_number.
Accepted ==
    numerical_value # None

(***************************************************************************)
(* What the claims speak of, stated from the numbers and not from the code.*)
(***************************************************************************)
\* sub occurs in s.
contains(s, sub) ==
    find(s, sub) # 0

\* |n| <= MAX_SUPPORTED_NUMBER.
InRange(n) ==
    ~MagGT(n.mag, MAX_SUPPORTED_NUMBER.mag)

\* -n.
Negated(n) ==
    [neg |-> ~n.neg /\ ~IntIsZero(n), mag |-> n.mag]

\* A string of optional whitespace around an optional single "-" and 1 to 27
\* digits.
WellFormedStr(s) ==
    LET t == strip(s, Whitespace)
        d == IF t # <<>> /\ Head(t) = "-" THEN Tail(t) ELSE t
    IN  isdigit(d) /\ Len(d) <= MAX_SUPPORTED_NUMBER_LENGTH

\* At most one leading "-", then digits only, at most 27 of them.
Canonical(s) ==
    LET d == IF s # <<>> /\ Head(s) = "-" THEN Tail(s) ELSE s
    IN  isdigit(d) /\ Len(d) <= MAX_SUPPORTED_NUMBER_LENGTH

\* The input is a number of value zero: the int 0, or a string of zeros with at
\* most one "-" before them and whitespace around them.
ValueIsZero(n) ==
    IF n.kind = "int" THEN n.i.mag = <<0>>
    ELSE IF n.kind = "str"
    THEN LET t == strip(n.s, Whitespace)
             d == IF t # <<>> /\ Head(t) = "-" THEN Tail(t) ELSE t
         IN  d # <<>> /\ \A i \in 1..Len(d) : d[i] = "0"
    ELSE FALSE

\* The words of r in 1..99: a teen word, a tens word, a tens and a ones word, or
\* a ones word.
RefDecimals(r) ==
    IF r \in 11..19 THEN UNIQUES[r]
    ELSE IF r % 10 = 0 THEN DOUBLES[r]
    ELSE IF r >= 10 THEN DOUBLES[10 * (r \div 10)] \o <<" ">> \o SINGLES[r % 10]
    ELSE SINGLES[r]

\* The words of v in 1..999, and no word for 0.
RefPhrase(v) ==
    IF v = 0 THEN <<>>
    ELSE IF v < 100 THEN RefDecimals(v)
    ELSE SINGLES[v \div 100] \o <<" ">> \o HUNDRED
           \o (IF v % 100 # 0
               THEN <<" ", "a", "n", "d", " ">> \o RefDecimals(v % 100)
               ELSE <<>>)

\* The suffix of a group of value v at grade g.
RefSuffix(v, g) ==
    IF g >= 2 /\ v # 0
    THEN (IF v = 1 \/ g = 2 THEN LARGE[g] ELSE LARGE[g] \o <<"s">>)
    ELSE <<>>

\* The values of the groups of three digits of a number, from its digits.
RECURSIVE GroupValues(_)
GroupValues(mag) ==
    LET n == Len(mag)
    IN  IF n <= GroupSize
        THEN <<(IF n = 3 THEN 100 * mag[n - 2] ELSE 0)
               + (IF n >= 2 THEN 10 * mag[n - 1] ELSE 0) + mag[n]>>
        ELSE GroupValues(SubSeq(mag, 1, n - 3))
               \o <<100 * mag[n - 2] + 10 * mag[n - 1] + mag[n]>>

\* The suffixed phrases of the non-zero groups among the first k of vals, the
\* group at position i having grade Len(vals) - i + 1.
RECURSIVE RefFront(_, _)
RefFront(vals, k) ==
    IF k = 0 THEN <<>>
    ELSE RefFront(vals, k - 1)
           \o (IF vals[k] = 0 THEN <<>>
               ELSE <<RefPhrase(vals[k]) \o RefSuffix(vals[k], Len(vals) - k + 1)>>)

\* The text of a number n >= 1 with the given digits.
RefText(mag) ==
    LET vals == GroupValues(mag)
        k == Len(vals)
        last == vals[k]
        front == RefFront(vals, k - 1)
    IN  IF k = 1 THEN RefPhrase(last)
        ELSE IF last = 0 THEN join(<<",", " ">>, front)
        ELSE IF last \in (1..9) \cup (11..19)
        THEN join(<<",", " ">>, front) \o <<" ", "a", "n", "d", " ">> \o RefPhrase(last)
        ELSE join(<<",", " ">>, Append(front, RefPhrase(last)))

(***************************************************************************)
(* The claims.                                                             *)
(***************************************************************************)

\* C1: for every int n with -MAX <= n <= MAX, NumberToText(n) and
\* NumberToText(str(n)) both succeed and give the identical text.
C1_IntAndStrAgree ==
    (Finished /\ number.kind = "int" /\ InRange(number.i))
        => /\ pc = "done"
           /\ NumberToText(StrInput(str_of_int(number.i))) = Ret(_text_value)

\* C2: for every string of optional surrounding whitespace, an optional single
\* "-" and 1 to 27 digits, leading zeros allowed, NumberToText(s) returns the
\* text of NumberToText(int(s)) and raises nothing.
C2_PaddingChangesNothing ==
    (Finished /\ number.kind = "str" /\ WellFormedStr(number.s))
        => /\ pc = "done"
           /\ NumberToText(IntInput(int_of_str(number.s).val)) = Ret(_text_value)

\* C3: validation is the only failure point: once validate_number has returned,
\* the conversion raises nothing.
C3_OnlyValidationRaises ==
    pc = "raised" => ~Accepted

\* C4: whenever validate_number returns, the returned string is at most one
\* leading "-" followed by at most 27 digits and nothing else; an int or a string
\* that is not of this form once stripped is rejected with a ValueError.
C4_ValidatedIsCanonical ==
    /\ Accepted => Canonical(numerical_value)
    /\ (pc # "__init__" /\ number.kind # "float"
            /\ ~Canonical(strip(str(number), Whitespace)))
           => (~Accepted /\ pc = "raised" /\ exc.exc = "ValueError")

\* C5: for every int n with 1 <= n <= MAX, the text of -n, given as an int or as
\* the string "-" followed by the digits of n, is "minus, " followed by the text
\* of n; and the text of an input that is not negative never starts with "minus".
C5_MinusPrefix ==
    /\ (pc = "done" /\ number.kind = "int" /\ ~number.i.neg
            /\ ~IntIsZero(number.i))
           => LET minus_text == Ret(MINUS \o <<",", " ">> \o _text_value)
              IN  /\ NumberToText(IntInput(Negated(number.i))) = minus_text
                  /\ NumberToText(StrInput(<<"-">> \o str_of_int(number.i)))
                         = minus_text
    /\ (pc = "done" /\ ~contains(str(number), <<"-">>))
           => ~startswith(_text_value, MINUS)

\* C6: every accepted input of value zero (0, "0", "-0", "000", with or without
\* whitespace around it) gives exactly "zero", leaves is_negative_number False
\* and the cache empty; and no input of another value gives "zero".
C6_ZeroIsZero ==
    /\ (Accepted /\ ValueIsZero(number))
           => /\ ~is_negative_number
              /\ _cached_values = <<>>
              /\ pc \in {"_read_number", "done"}
              /\ pc = "done" => _text_value = ZERO[0]
    /\ (pc = "done" /\ _text_value = ZERO[0]) => ValueIsZero(number)

C6_Witness ==
    /\ pc = "done"
    /\ number.kind = "str"
    /\ startswith(number.s, <<" ", "-", "0", "0">>)
    /\ ValueIsZero(number)
    /\ _text_value = ZERO[0]

\* C7: in _final_format, a group of non-zero value at grade g >= 2 gets exactly
\* one suffix, LARGE[g] when its value is 1 or g = 2 and LARGE[g] + "s"
\* otherwise; an all-zero group and the group of grade 1 get none.  So 1000000
\* gives "one million", 2000000 "two millions" and 2000 "two thousand".
C7_SuffixRule ==
    /\ pc \in {"_final_format", "done"}
           => \A j \in 1..Len(words_as_numbers_list) :
                  LET group == digit_groups_list[j]
                      v == IntOfDigits(group)
                      g == Len(words_as_numbers_list) - j + 1
                  IN  IF j <= index /\ RefSuffix(v, g) # <<>>
                      THEN words_as_numbers_list[j]
                               = strip(_cached_values[group], {" "}) \o RefSuffix(v, g)
                      ELSE words_as_numbers_list[j] = _cached_values[group]
    /\ (pc = "done" /\ number = IntInput([neg |-> FALSE, mag |-> <<1, 0, 0, 0, 0, 0, 0>>]))
           => _text_value = SINGLES[1] \o LARGE[3]
    /\ (pc = "done" /\ number = IntInput([neg |-> FALSE, mag |-> <<2, 0, 0, 0, 0, 0, 0>>]))
           => _text_value = SINGLES[2] \o LARGE[3] \o <<"s">>
    /\ (pc = "done" /\ number = IntInput([neg |-> FALSE, mag |-> <<2, 0, 0, 0>>]))
           => _text_value = SINGLES[2] \o LARGE[2]

C7_Witness ==
    /\ pc = "done"
    /\ number = IntInput([neg |-> FALSE, mag |-> <<2, 0, 0, 0, 9, 9, 9>>])
    /\ index = 3
    /\ words_as_numbers_list[1] = SINGLES[2] \o LARGE[3] \o <<"s">>
    /\ words_as_numbers_list[2] = <<>>
    /\ ~contains(words_as_numbers_list[3], LARGE[2])

\* C8: for every int n >= 1 the output is the suffixed phrases of the non-zero
\* groups, highest first, joined by ", ", except that a last group that is a
\* bare ones word or teen word, in a number of more than one group, is attached
\* with " and " and no comma.  No output holds ", and" or two spaces in a row,
\* or starts or ends with whitespace.
C8_JoinRule ==
    /\ (pc = "done" /\ number.kind = "int" /\ ~number.i.neg /\ ~IntIsZero(number.i))
           => _text_value = RefText(number.i.mag)
    /\ pc = "done"
           => /\ ~contains(_text_value, <<",", " ", "a", "n", "d">>)
              /\ ~contains(_text_value, <<" ", " ">>)
              /\ _text_value # <<>>
              /\ Head(_text_value) \notin Whitespace
              /\ _text_value[Len(_text_value)] \notin Whitespace

C8_Witness ==
    /\ pc = "done"
    /\ number = IntInput([neg |-> FALSE, mag |-> <<1, 1, 0, 0, 0, 0, 1>>])
    /\ _text_value = SINGLES[1] \o LARGE[3] \o <<",", " ">> \o SINGLES[1]
                       \o <<" ">> \o HUNDRED \o LARGE[2]
                       \o <<" ", "a", "n", "d", " ">> \o SINGLES[1]

\* C9: for a group of 1 to 3 digits of value v in 1..999, leading zeros allowed,
\* _format_digits returns, up to trailing spaces, the words of v: "<ones word>
\* hundred" for v >= 100, followed by " and " and the words of v mod 100 when
\* that is not 0, and the words of v alone for v < 100; "000" gives the empty
\* phrase.
C9_GroupPhrase ==
    \A i \in 1..Len(result) :
        LET v == IntOfDigits(temp_result[i])
        IN  /\ rstrip(result[i], {" "}) = RefPhrase(v)
            /\ v = 0 => (temp_result[i] = <<"0", "0", "0">> /\ result[i] = <<>>)

C9_Witness ==
    /\ pc = "done"
    /\ temp_result = << <<"1", "2", "3">>, <<"0", "1", "1">> >>
    /\ result[1] = SINGLES[1] \o <<" ">> \o HUNDRED \o <<" ", "a", "n", "d", " ">>
                     \o DOUBLES[20] \o <<" ">> \o SINGLES[3]
    /\ result[2] = UNIQUES[11]

\* The phrases of the groups, each translated afresh.
Uncached(groups) ==
    [i \in 1..Len(groups) |-> _format_digits(groups[i]).val]

\* C10: at every step of _create_text_from_number and until the conversion
\* ends, every entry of _cached_values maps a group g to _format_digits(g); the
\* phrases produced with the cache are those of translating every group afresh,
\* and the final text is that of a conversion without cache.
C10_CacheIsFormatDigits ==
    /\ \A g \in DOMAIN _cached_values : _format_digits(g) = Ret(_cached_values[g])
    /\ \A i \in 1..Len(result) : _format_digits(temp_result[i]) = Ret(result[i])
    /\ (pc \in {"_final_format", "done"} /\ temp_result # <<>>)
           => result = Uncached(temp_result)
    /\ (pc = "done" /\ temp_result # <<>>)
           => Ret(_text_value) = _final_format(Uncached(temp_result),
                                               digit_groups_list, is_negative_number)

C10_Witness ==
    /\ pc = "done"
    /\ temp_result = << <<"1", "2", "3">>, <<"1", "2", "3">>, <<"1", "2", "3">> >>
    /\ DOMAIN _cached_values = {<<"1", "2", "3">>}
    /\ result[1] = result[3]
    /\ contains(_text_value, LARGE[3] \o <<"s">>)

\* The suffixes the first j groups of the list are due, by their values and
\* grades.
DueSuffixes(j) ==
    {RefSuffix(IntOfDigits(digit_groups_list[i]), Len(words_as_numbers_list) - i + 1) :
        i \in 1..j} \ {<<>>}

\* C11: the "suffix already used" test of _final_format is dead: at every
\* iteration of the loop with a grade >= 2 that LARGE holds, neither LARGE[grade]
\* nor LARGE[grade] + "s" is in additions yet, so the test withholds no suffix
\* from a non-zero group; and additions holds at most one suffix per grade, the
\* suffixes due to the groups passed and no other.
C11_GuardIsDead ==
    pc \in {"_final_format", "done"}
        => LET grade == Len(words_as_numbers_list) - index
           IN  /\ (index < Len(words_as_numbers_list) /\ grade \in DOMAIN LARGE)
                      => /\ LARGE[grade] \notin additions
                         /\ (LARGE[grade] \o <<"s">>) \notin additions
               /\ \A g \in DOMAIN LARGE :
                      ~(LARGE[g] \in additions /\ (LARGE[g] \o <<"s">>) \in additions)
               /\ additions = DueSuffixes(index)

C11_Witness ==
    /\ pc = "_final_format"
    /\ Len(words_as_numbers_list) = 9
    /\ index = 8
    /\ additions = {LARGE[g] \o <<"s">> : g \in 3..9} \cup {LARGE[2]}

====
